---- MODULE Spec2Model ----
(***************************************************************************)
(* A model of github.com/moistari/tlapi: the SearchRequest cursor          *)
(* (Next / Cur / Err), the request builder and path encoder                *)
(* (With*, SearchRequest.Do) and the Torrent JSON decoder                  *)
(* (Torrent.UnmarshalJSON).                                                *)
(***************************************************************************)
EXTENDS Integers, Sequences, FiniteSets, TLC

\* ------------------------------------------------------------------------
\* Bounds of the model
\* ------------------------------------------------------------------------
MaxFound == 4    \* numFound reported by the server ranges over 0..MaxFound
MaxPer == 2      \* perPage reported by the server ranges over 0..MaxPer
MaxLen == 2      \* records on one page of a server that is not consistent
MaxStart == 2    \* the configured start page ranges over 0..MaxStart
MaxFetch == 3    \* fetches one cursor issues before the model stops it
MaxCalls == 3    \* the Next-call counter saturates here
MaxCur == 2      \* the counter of Cur calls since the last Next saturates here

\* ------------------------------------------------------------------------
\* Values
\* ------------------------------------------------------------------------
Nil == [nil |-> TRUE]                 \* a nil *SearchResponse
NoErr == "nil"                         \* a nil error
ErrNoJar == "must supply cookie jar"   \* client.go:130
ErrCanceled == "context canceled"      \* the transport's error for a done ctx
ErrNet == "network error"              \* any other error of http.Client.Do
ErrStatus == "invalid http status"     \* client.go:139
ErrDecode == "json decode error"       \* client.go:143, Decode fails
NilMap == [nil |-> TRUE]               \* a nil map[string]string

VARIABLES
    Page,      \* req.Page
    res,       \* req.res: Nil or the current page
    i,         \* req.i
    p,         \* req.p
    d,         \* req.d: 0 or a positive delay
    err,       \* req.err
    pc,        \* where the Next call in progress is: "idle", "delay", "fetch"
    page,      \* the local variable page of the Next call in progress
    ctxDone,   \* the ctx of the Next call in progress has been cancelled
    ret,       \* the value the last Next call returned ("none" before any)
    jar,       \* cl.Jar is set
    srv,       \* the server: [N, P, honest]
    fetches,   \* page numbers of the SearchRequest.Do calls issued by Next
    sent,      \* HTTP requests handed to the transport
    delays,    \* times the delay was waited
    yielded,   \* Next calls that returned true
    calls,     \* Next calls made (saturating at MaxCalls)
    failed,    \* a fetch issued by Next has returned an error
    start,     \* req.Page when the cursor was handed to its first Next
    Categories,  \* req.Categories
    Facets,      \* req.Facets: [nil |-> TRUE] or [nil |-> FALSE, m |-> the map]
    Query,       \* req.Query
    Added,       \* req.Added
    OrderBy,     \* req.OrderBy
    Order,       \* req.Order
    q,           \* the path q built by the Do call that has just returned
    lastOp,      \* the operation on the request that has just returned
    buf,         \* the JSON value Torrent.UnmarshalJSON is given
    decoded,     \* UnmarshalJSON has returned
    t,           \* the Torrent it decoded into
    decErr,      \* the error it returned
    obs,         \* what the last calls of Next, Cur and Err by any thread saw
    committed,   \* res, i and err as the last return of Next left them
    waiting,     \* the call another thread is blocked in, at req.mu.Lock()
    inflight     \* the HTTP requests of this cursor that are on the wire

cursorVars == <<res, i, p, d, err, pc, page, ctxDone, ret, jar, srv,
                fetches, sent, delays, yielded, calls, failed, start,
                obs, committed, waiting, inflight>>

reqVars == <<Categories, Facets, Query, Added, OrderBy, Order, q, lastOp>>

decVars == <<buf, decoded, t, decErr>>

vars == <<Page, cursorVars, reqVars, decVars>>

Min(a, b) == IF a < b THEN a ELSE b

\* ------------------------------------------------------------------------
\* The server and the transport
\* ------------------------------------------------------------------------

\* The records (k-1)*P+1 .. min(k*P, N) of page k of a consistent server.
HonestList(k) ==
    LET lo == (k - 1) * srv.P + 1
        hi == Min(k * srv.P, srv.N)
    IN  IF k >= 1 /\ hi >= lo THEN [j \in 1..(hi - lo + 1) |-> lo + j - 1] ELSE <<>>

\* The bodies the server may answer a request for page k with.
Bodies(k) ==
    IF srv.honest
    THEN {[NumFound |-> srv.N, PerPage |-> srv.P, TorrentList |-> HonestList(k)]}
    ELSE {[NumFound |-> srv.N, PerPage |-> srv.P,
           TorrentList |-> [j \in 1..n |-> (k - 1) * MaxLen + j]] : n \in 0..MaxLen}

\* What http.Client.Do and the body can come back as for a request of page k:
\* an error of the transport, a status other than 200, a body that does not
\* decode, or a body that does. A request whose ctx is done fails with the
\* ctx's error, from http.Client.Do or from the read of the body in Decode.
Transport(k, done) ==
    IF done THEN {[kind |-> "error", err |-> ErrCanceled],
                  [kind |-> "readerror", err |-> ErrCanceled]}
    ELSE {[kind |-> "error", err |-> ErrNet],
          [kind |-> "status"],
          [kind |-> "garbage"]}
         \cup {[kind |-> "body", body |-> b] : b \in Bodies(k)}

\* Client.Do after the jar check: the error it returns and the value decoded.
ClientDo(out) ==
    CASE out.kind = "error"   -> [res |-> Nil, err |-> out.err]
      [] out.kind = "status"  -> [res |-> Nil, err |-> ErrStatus]
      [] out.kind = "readerror" -> [res |-> Nil, err |-> out.err]
      [] out.kind = "garbage" -> [res |-> Nil, err |-> ErrDecode]
      [] out.kind = "body"    -> [res |-> out.body, err |-> NoErr]

\* SearchRequest.Do that drops the error of Client.Do and returns the
\* zero-valued response it allocated.
SearchDo_DropErr(out) ==
    LET r == ClientDo(out)
    IN  IF r.err # NoErr
        THEN [res |-> [NumFound |-> 0, PerPage |-> 0, TorrentList |-> <<>>],
              err |-> NoErr]
        ELSE r

\* SearchRequest.Do: nil and the error when Client.Do fails, else the page.
SearchDo(out) ==
    LET r == ClientDo(out)
    IN  IF r.err # NoErr THEN [res |-> Nil, err |-> r.err] ELSE r

\* ------------------------------------------------------------------------
\* The cursor
\* ------------------------------------------------------------------------

\* NextSwitch without its first case: a stored error does not stop the cursor.
NextSwitch_NoErrCase(e, r, idx, pg, pp) ==
    IF r # Nil /\ idx < Len(r.TorrentList) - 1 THEN "inc"
    ELSE IF r # Nil /\ (pg + pp) * r.PerPage >= r.NumFound THEN "false"
    ELSE "fetch"

\* The switch of Next without the test for the last page: past the last
\* record of a page it always fetches.
NextSwitch_NoExhaustCase(e, r, idx, pg, pp) ==
    IF e # NoErr THEN "false"
    ELSE IF r # Nil /\ idx < Len(r.TorrentList) - 1 THEN "inc"
    ELSE "fetch"

\* The switch of Next with the advance inside the page allowed one record
\* too far.
NextSwitch_IncPastEnd(e, r, idx, pg, pp) ==
    IF e # NoErr THEN "false"
    ELSE IF r # Nil /\ idx < Len(r.TorrentList) THEN "inc"
    ELSE IF r # Nil /\ (pg + pp) * r.PerPage >= r.NumFound THEN "false"
    ELSE "fetch"

\* The switch of Next with the test for the last page put before the
\* advance inside the page.
NextSwitch_ExhaustFirst(e, r, idx, pg, pp) ==
    IF e # NoErr THEN "false"
    ELSE IF r # Nil /\ (pg + pp) * r.PerPage >= r.NumFound THEN "false"
    ELSE IF r # Nil /\ idx < Len(r.TorrentList) - 1 THEN "inc"
    ELSE "fetch"

\* The switch of Next: "false" and "inc" return, "fetch" falls through.
NextSwitch(e, r, idx, pg, pp) ==
    IF e # NoErr THEN "false"
    ELSE IF r # Nil /\ idx < Len(r.TorrentList) - 1 THEN "inc"
    ELSE IF r # Nil /\ (pg + pp) * r.PerPage >= r.NumFound THEN "false"
    ELSE "fetch"

\* NextResult with <= for <: an empty page counts as holding an item.
NextResult_OffByOne(e, r, idx) == e = NoErr /\ idx <= Len(r.TorrentList)

\* The value Next returns after its fetch.
NextResult(e, r, idx) == e = NoErr /\ idx < Len(r.TorrentList)

\* The value a Next call returned, as ret records it.
RetOf(b) == IF b THEN "true" ELSE "false"

\* The delay is waited before every fetch, the first included.
NeedDelay_Always(dd, pp) == dd # 0

\* The delay is waited when it is set and the fetch is not the first.
NeedDelay(dd, pp) == dd # 0 /\ pp # 0

\* req.res, req.err = ...Do(ctx, cl), and the return of Next.
Commit(r, idx) ==
    /\ res' = r.res
    /\ err' = r.err
    /\ ret' = RetOf(NextResult(r.err, r.res, idx))
    /\ yielded' = IF NextResult(r.err, r.res, idx) THEN yielded + 1 ELSE yielded
    /\ failed' = (failed \/ r.err # NoErr)
    /\ committed' = [res |-> r.res, i |-> idx, err |-> r.err]
    /\ pc' = "idle"

\* Client.Do without its check of the jar: the request is always sent.
Issue_NoJarCheck(pg, idx) ==
    /\ Page' = pg
    /\ fetches' = Append(fetches, pg)
    /\ sent' = sent + 1
    /\ inflight' = inflight + 1
    /\ pc' = "fetch"
    /\ UNCHANGED <<res, err, ret, yielded, failed, committed>>

\* req.WithPage(pg).Do(ctx, cl) up to the point where the request is on the
\* wire: WithPage stores pg in the receiver, Client.Do fails at once without a
\* jar and otherwise hands the request to the transport.
Issue(pg, idx) ==
    /\ Page' = pg
    /\ fetches' = Append(fetches, pg)
    /\ IF jar
       THEN /\ sent' = sent + 1
            /\ inflight' = inflight + 1
            /\ pc' = "fetch"
            /\ UNCHANGED <<res, err, ret, yielded, failed, committed>>
       ELSE /\ Commit([res |-> Nil, err |-> ErrNoJar], idx)
            /\ UNCHANGED <<sent, inflight>>

\* Nothing has been observed since the last call of Next.
NoObs == [op |-> "none", blocked |-> FALSE, st |-> "none", val |-> 0,
          n |-> 0, e |-> NoErr]

\* The body of Next from the switch on, run with req.mu held.
NextBody ==
    LET pg == IF Page = 0 THEN 1 ELSE Page
        sw == NextSwitch(err, res, i, pg, p)
    IN  /\ sw = "fetch" => Len(fetches) < MaxFetch
        /\ calls' = Min(calls + 1, MaxCalls)
        /\ ctxDone' = FALSE
        /\ page' = pg
        /\ obs' = [NoObs EXCEPT !.op = "Next", !.blocked = (waiting = "Next")]
        /\ waiting' = IF waiting = "Next" THEN "none" ELSE waiting
        /\ CASE sw = "false" ->
                 /\ ret' = RetOf(FALSE)
                 /\ committed' = [res |-> res, i |-> i, err |-> err]
                 /\ UNCHANGED <<Page, res, i, p, err, pc, fetches, sent,
                                delays, yielded, failed, inflight>>
             [] sw = "inc" ->
                 /\ i' = i + 1
                 /\ ret' = RetOf(TRUE)
                 /\ yielded' = yielded + 1
                 /\ committed' = [res |-> res, i |-> i + 1, err |-> err]
                 /\ UNCHANGED <<Page, res, p, err, pc, fetches, sent,
                                delays, failed, inflight>>
             [] sw = "fetch" ->
                 /\ p' = p + 1
                 /\ i' = 0
                 /\ IF NeedDelay(d, p + 1)
                    THEN /\ pc' = "delay"
                         /\ delays' = delays + 1
                         /\ UNCHANGED <<Page, res, err, ret, fetches, sent,
                                        yielded, failed, committed, inflight>>
                    ELSE /\ Issue(pg + p + 1, 0)
                         /\ UNCHANGED delays
        /\ UNCHANGED <<d, jar, srv, start, reqVars, decVars>>

\* Next without req.mu: a call begins while another one is in progress.
NextCall_NoLock == NextBody

\* A call of Next, up to its return or to the point where it blocks. It holds
\* req.mu from its first statement to its return, so it begins only when no
\* other call holds it.
NextCall == pc = "idle" /\ NextBody

\* <-time.After(req.d) fires; the fetch is issued.
DelayElapsed ==
    /\ pc = "delay"
    /\ Issue(page + p, i)
    /\ UNCHANGED <<i, p, d, page, ctxDone, jar, srv, delays, calls, start,
                   obs, waiting, reqVars, decVars>>

\* The caller cancels the ctx of the Next call that is waiting.
CancelCtx ==
    /\ pc \in {"delay", "fetch"}
    /\ ~ctxDone
    /\ ctxDone' = TRUE
    /\ UNCHANGED <<Page, res, i, p, d, err, pc, page, ret, jar, srv, fetches,
                   sent, delays, yielded, calls, failed, start, obs, committed,
                   waiting, inflight, reqVars, decVars>>

\* The transport returns; Next stores the page or the error and returns.
FetchReturn ==
    /\ pc = "fetch"
    /\ \E out \in Transport(Page, ctxDone) : Commit(SearchDo(out), i)
    /\ inflight' = inflight - 1
    /\ UNCHANGED <<Page, i, p, d, page, ctxDone, jar, srv, fetches, sent,
                   delays, calls, start, obs, waiting, reqVars, decVars>>

\* Cur that returns the zero Torrent where there is no record to return.
CurValue_Guarded(r, idx) ==
    IF r = Nil THEN [st |-> "ok", val |-> 0]
    ELSE IF idx < 0 \/ idx >= Len(r.TorrentList) THEN [st |-> "ok", val |-> 0]
    ELSE [st |-> "ok", val |-> r.TorrentList[idx + 1]]

\* What Cur evaluates: req.res.TorrentList[req.i] panics on a nil res and on
\* an index out of range.
CurValue(r, idx) ==
    IF r = Nil THEN [st |-> "panic", val |-> 0]
    ELSE IF idx < 0 \/ idx >= Len(r.TorrentList) THEN [st |-> "panic", val |-> 0]
    ELSE [st |-> "ok", val |-> r.TorrentList[idx + 1]]

\* The cursor fields no accessor writes.
accessorFrame == <<Page, res, i, p, d, err, pc, page, ctxDone, ret, jar, srv,
                   fetches, sent, delays, yielded, calls, failed, start,
                   committed, inflight>>

\* Cur that moves to the next record after its read.
CurBody_Advance ==
    LET c == CurValue(res, i)
    IN  /\ obs' = [obs EXCEPT !.op = "Cur", !.blocked = (waiting = "Cur"),
                              !.st = c.st, !.val = c.val,
                              !.n = Min(obs.n + 1, MaxCur)]
        /\ waiting' = IF waiting = "Cur" THEN "none" ELSE waiting
        /\ i' = IF c.st = "ok" THEN i + 1 ELSE i
        /\ UNCHANGED <<Page, res, p, d, err, pc, page, ctxDone, ret, jar, srv,
                       fetches, sent, delays, yielded, calls, failed, start,
                       committed, inflight, reqVars, decVars>>

\* The read of Cur, and the release of req.mu by its deferred Unlock.
CurBody ==
    LET c == CurValue(res, i)
    IN  /\ obs' = [obs EXCEPT !.op = "Cur", !.blocked = (waiting = "Cur"),
                              !.st = c.st, !.val = c.val,
                              !.n = Min(obs.n + 1, MaxCur)]
        /\ waiting' = IF waiting = "Cur" THEN "none" ELSE waiting
        /\ UNCHANGED <<accessorFrame, reqVars, decVars>>

\* Cur without req.mu: it reads while a call of Next is in progress.
Cur_NoLock == CurBody

\* A call of Cur by any thread: it takes req.mu, so it runs only when no call
\* of Next holds it.
Cur == pc = "idle" /\ CurBody

\* A call of Err by any thread.
Err ==
    /\ pc = "idle"
    /\ obs' = [obs EXCEPT !.op = "Err", !.blocked = (waiting = "Err"),
                          !.e = err]
    /\ waiting' = IF waiting = "Err" THEN "none" ELSE waiting
    /\ UNCHANGED <<accessorFrame, reqVars, decVars>>

\* The calls another thread can make on the cursor.
CursorOps == {"Next", "Cur", "Err"}

\* Another thread calls op while a call of Next holds req.mu: it blocks in
\* req.mu.Lock() until that call returns.
Block(op) ==
    /\ pc # "idle"
    /\ waiting = "none"
    /\ waiting' = op
    /\ UNCHANGED <<accessorFrame, obs, reqVars, decVars>>

\* ------------------------------------------------------------------------
\* The request builder and the path encoder. A Go string is the sequence of
\* its characters.
\* ------------------------------------------------------------------------

K_added == <<"a", "d", "d", "e", "d">>
K_name == <<"n", "a", "m", "e">>
K_seeders == <<"s", "e", "e", "d", "e", "r", "s">>
K_size == <<"s", "i", "z", "e">>
K_tags == <<"t", "a", "g", "s">>
K_genre == <<"g", "e", "n", "r", "e">>                     \* a facet name Do does not know

Seeders0to50 == <<"[", "0", " ", "T", "O", " ", "5", "0", "]">>
OrderBySize == <<"s", "i", "z", "e">>
OrderDesc == <<"d", "e", "s", "c">>
CategoryForeignMovies == 36
CategoryMoviesCam == 8

\* The arguments the builders are called with.
CategoryArgs == {<<>>, <<CategoryForeignMovies, CategoryMoviesCam>>}
FacetNames == {K_added, K_size, K_genre}
FacetsArgs == {<<>>, <<K_size>>, <<K_size, Seeders0to50, K_added, Seeders0to50>>}
                \cup {<<n, Seeders0to50>> : n \in FacetNames}
FacetValueArgs == {<<<<"a">>, <<"b", " ", "c">>>>}
AddedArgs == {<<>>, <<"-", "7", "d">>}
OrderByArgs == {<<>>, OrderBySize}
OrderArgs == {<<>>, OrderDesc}
QueryArgs == {<<>>, <<<<"f", "i", "g", "h", "t">>, <<"a", "/", "b">>>>, <<<<>>>>}

RECURSIVE Digits(_)
Digits(n) ==
    LET c == <<"0", "1", "2", "3", "4", "5", "6", "7", "8", "9">>
    IN  IF n < 10 THEN <<c[n + 1]>> ELSE Digits(n \div 10) \o <<c[(n % 10) + 1]>>

\* strconv.Itoa
Itoa(n) == IF n < 0 THEN <<"-">> \o Digits(-n) ELSE Digits(n)

\* strings.Join
RECURSIVE Join(_, _)
Join(ss, sep) ==
    IF Len(ss) = 0 THEN <<>>
    ELSE IF Len(ss) = 1 THEN ss[1]
    ELSE ss[1] \o sep \o Join(Tail(ss), sep)

\* The replacement escaper makes for one character.
EscapeChar(c) ==
    CASE c = "[" -> <<"%", "2", "5", "5", "B">>
      [] c = " " -> <<"%", "2", "5", "2", "0">>
      [] c = "]" -> <<"%", "2", "5", "5", "D">>
      [] OTHER -> <<c>>

\* escaper.Replace
RECURSIVE Replace(_)
Replace(s) == IF s = <<>> THEN <<>> ELSE EscapeChar(Head(s)) \o Replace(Tail(s))

\* url.PathEscape on one character, for the characters the arguments use:
\* letters, digits, '-', '_', '.', '~' and the reserved characters other than
\* '/', ';', ',', '?' are kept, the rest is percent-encoded.
PathEscapeChar(c) ==
    CASE c = " " -> <<"%", "2", "0">>
      [] c = "/" -> <<"%", "2", "F">>
      [] c = "[" -> <<"%", "5", "B">>
      [] c = "]" -> <<"%", "5", "D">>
      [] c = "," -> <<"%", "2", "C">>
      [] c = "%" -> <<"%", "2", "5">>
      [] OTHER -> <<c>>

RECURSIVE PathEscape(_)
PathEscape(s) ==
    IF s = <<>> THEN <<>> ELSE PathEscapeChar(Head(s)) \o PathEscape(Tail(s))

\* The keys in another order, as a range over a map may give them.
FacetKeys_Unordered == <<K_size, K_added, K_name, K_seeders, K_tags>>

\* The keys the facets loop of Do ranges over, in its order.
FacetKeys == <<K_added, K_name, K_seeders, K_size, K_tags>>

\* The slice v the facets loop of Do builds from the map m.
RECURSIVE FacetEntries(_, _)
FacetEntries(keys, m) ==
    IF keys = <<>> THEN <<>>
    ELSE (IF Head(keys) \in DOMAIN m
          THEN <<Head(keys) \o <<"%", "3", "A">> \o Replace(m[Head(keys)])>>
          ELSE <<>>) \o FacetEntries(Tail(keys), m)

\* The path q that SearchRequest.Do builds.
BuildPath(cats, facets, query, added, orderBy, order, pg) ==
    (IF Len(cats) # 0
     THEN <<"/", "c", "a", "t", "e", "g", "o", "r", "i", "e", "s", "/">>
            \o Join([k \in 1..Len(cats) |-> Itoa(cats[k])], <<",">>)
     ELSE <<>>)
    \o (IF ~facets.nil
        THEN <<"/", "f", "a", "c", "e", "t", "s", "/">>
               \o Join(FacetEntries(FacetKeys, facets.m), <<"_">>)
        ELSE <<>>)
    \o (IF Len(query) # 0
        THEN <<"/", "q", "u", "e", "r", "y", "/">>
               \o PathEscape(Join(query, <<" ">>))
        ELSE <<>>)
    \o (IF added # <<>> THEN <<"/", "a", "d", "d", "e", "d", "/">> \o added ELSE <<>>)
    \o (IF orderBy # <<>> THEN <<"/", "o", "r", "d", "e", "r", "b", "y", "/">> \o orderBy ELSE <<>>)
    \o (IF order # <<>> THEN <<"/", "o", "r", "d", "e", "r", "/">> \o order ELSE <<>>)
    \o (IF pg # 0 THEN <<"/", "p", "a", "g", "e", "/">> \o Itoa(pg) ELSE <<>>)

\* The map after req.Facets[facets[k]] = facets[k+1] for k = 1, 3, ...
RECURSIVE PutPairs(_, _)
PutPairs(m, fs) ==
    IF Len(fs) < 2 THEN m
    ELSE PutPairs([n \in DOMAIN m \cup {fs[1]} |-> IF n = fs[1] THEN fs[2] ELSE m[n]],
                  SubSeq(fs, 3, Len(fs)))

\* The map a builder writes to: the receiver's, made if it is nil.
MapOf(facets) == IF facets.nil THEN [n \in {} |-> <<>>] ELSE facets.m

\* ------------------------------------------------------------------------
\* The Torrent decoder. A JSON value is what json.Unmarshal makes of it in a
\* map[string]any: a string, a float64 (held here in tenths), a bool, nil,
\* a []any or a map[string]any.
\* ------------------------------------------------------------------------

MaxKeys == 3     \* keys of a decoded object that has more than one key

JStr(s) == [kind |-> "string", s |-> s]
JNum(tenths) == [kind |-> "number", n |-> tenths]
JBool(b) == [kind |-> "bool", b |-> b]
JNull == [kind |-> "null"]
JArr(elems) == [kind |-> "array", elems |-> elems]
JObj == [kind |-> "object"]

\* time.Time{}
ZeroTime == [Y |-> 1, M |-> 1, D |-> 1, h |-> 0, m |-> 0, s |-> 0]

\* Torrent{}
ZeroTorrent ==
    [AddedTimestamp |-> ZeroTime, CategoryID |-> 0, Completed |-> 0,
     DownloadMultiplier |-> 0, ID |-> 0, Filename |-> <<>>, Genres |-> <<>>,
     IgdbID |-> <<>>, AnimeID |-> <<>>, ImdbID |-> <<>>, Leechers |-> 0,
     Name |-> <<>>, New |-> FALSE, NumComments |-> 0, Rating |-> 0,
     Seeders |-> 0, Size |-> 0, Tags |-> <<>>, TvmazeID |-> <<>>,
     Uploader |-> <<>>, CommentsDisabled |-> 0]

\* The keys whose case converts a float64 to an integer field.
IntField ==
    [categoryID |-> "CategoryID", completed |-> "Completed",
     download_multiplier |-> "DownloadMultiplier",
     commentsDisabled |-> "CommentsDisabled", leechers |-> "Leechers",
     numComments |-> "NumComments", seeders |-> "Seeders", size |-> "Size"]

\* The keys whose case stores a string as it is.
StrField ==
    [filename |-> "Filename", imdbID |-> "ImdbID", name |-> "Name",
     tvmazeID |-> "TvmazeID", uploader |-> "Uploader"]

\* The keys the switch of UnmarshalJSON has a case for.
KnownKeys ==
    DOMAIN IntField \cup DOMAIN StrField
        \cup {"addedTimestamp", "fid", "genres", "igdbID", "animeID", "new",
              "rating", "tags"}

IsDigit(c) == c \in {"0", "1", "2", "3", "4", "5", "6", "7", "8", "9"}

DigitVal(c) ==
    CHOOSE n \in 0..9 : <<"0", "1", "2", "3", "4", "5", "6", "7", "8", "9">>[n + 1] = c

\* The number a sequence of digits denotes.
RECURSIVE Number(_)
Number(s) ==
    IF s = <<>> THEN 0
    ELSE 10 * Number(SubSeq(s, 1, Len(s) - 1)) + DigitVal(s[Len(s)])

AllDigits(s) == s # <<>> /\ \A k \in 1..Len(s) : IsDigit(s[k])

\* strconv.Atoi: an optional sign and one or more digits.
Atoi(s) ==
    LET signed == s # <<>> /\ s[1] \in {"+", "-"}
        body == IF signed THEN Tail(s) ELSE s
    IN  IF AllDigits(body)
        THEN [ok |-> TRUE,
              n |-> IF signed /\ s[1] = "-" THEN -Number(body) ELSE Number(body)]
        ELSE [ok |-> FALSE, n |-> 0]

DaysIn(month, year) ==
    IF month = 2
    THEN (IF year % 4 = 0 /\ (year % 100 # 0 \/ year % 400 = 0) THEN 29 ELSE 28)
    ELSE IF month \in {4, 6, 9, 11} THEN 30 ELSE 31

\* time.Parse(timefmt, s) with timefmt = "2006-01-02 15:04:05".
ParseTime(s) ==
    LET num(a, b) == Number(SubSeq(s, a, b))
        shape == /\ Len(s) = 19
                 /\ \A k \in (1..19) \ {5, 8, 11, 14, 17} : IsDigit(s[k])
                 /\ s[5] = "-" /\ s[8] = "-" /\ s[11] = " "
                 /\ s[14] = ":" /\ s[17] = ":"
    IN  IF /\ shape
           /\ num(6, 7) \in 1..12
           /\ num(9, 10) \in 1..DaysIn(num(6, 7), num(1, 4))
           /\ num(12, 13) < 24 /\ num(15, 16) < 60 /\ num(18, 19) < 60
        THEN [ok |-> TRUE,
              time |-> [Y |-> num(1, 4), M |-> num(6, 7), D |-> num(9, 10),
                        h |-> num(12, 13), m |-> num(15, 16), s |-> num(18, 19)]]
        ELSE [ok |-> FALSE, time |-> ZeroTime]

\* strings.Split(s, sep) for a sep that is not empty.
RECURSIVE Split(_, _)
Split(s, sep) ==
    LET n == Len(sep)
        at == {k \in 1..(Len(s) - n + 1) : SubSeq(s, k, k + n - 1) = sep}
    IN  IF at = {} THEN <<s>>
        ELSE LET k == CHOOSE a \in at : \A b \in at : a <= b
             IN  <<SubSeq(s, 1, k - 1)>> \o Split(SubSeq(s, k + n, Len(s)), sep)

\* int(f) for a float64 f: the fraction is cut off.
Trunc(tenths) == IF tenths >= 0 THEN tenths \div 10 ELSE -((-tenths) \div 10)

DecOK == [kind |-> "nil", field |-> ""]
TypeErr(k) == [kind |-> "type", field |-> k]
ValueErr(k) == [kind |-> "value", field |-> k]
UnknownErr(k) == [kind |-> "unknown", field |-> k]

\* One case of the switch of UnmarshalJSON, for a key it knows: the error
\* it returns and the torrent after it.
DecodeKnown(k, v, tt) ==
    LET ok(x) == [err |-> DecOK, t |-> x]
        bad(e) == [err |-> e, t |-> tt]
        isStr == v.kind = "string"
        isNum == v.kind = "number"
    IN  CASE k = "addedTimestamp" ->
                IF ~isStr THEN bad(TypeErr(k))
                ELSE IF ~ParseTime(v.s).ok THEN bad(ValueErr(k))
                ELSE ok([tt EXCEPT !.AddedTimestamp = ParseTime(v.s).time])
          [] k \in DOMAIN IntField ->
                IF ~isNum THEN bad(TypeErr(k))
                ELSE ok([tt EXCEPT ![IntField[k]] = Trunc(v.n)])
          [] k = "fid" ->
                IF ~isStr THEN bad(TypeErr(k))
                ELSE IF ~Atoi(v.s).ok THEN bad(ValueErr(k))
                ELSE ok([tt EXCEPT !.ID = Atoi(v.s).n])
          [] k \in DOMAIN StrField ->
                IF ~isStr THEN bad(TypeErr(k))
                ELSE ok([tt EXCEPT ![StrField[k]] = v.s])
          [] k = "genres" ->
                IF ~isStr THEN bad(TypeErr(k))
                ELSE ok([tt EXCEPT !.Genres = Split(v.s, <<",", " ">>)])
          [] k = "igdbID" ->
                IF isStr THEN ok([tt EXCEPT !.IgdbID = v.s])
                ELSE IF isNum THEN ok([tt EXCEPT !.IgdbID = Itoa(Trunc(v.n))])
                ELSE bad(TypeErr(k))
          [] k = "animeID" ->
                IF isStr THEN ok([tt EXCEPT !.AnimeID = v.s])
                ELSE IF isNum THEN ok([tt EXCEPT !.AnimeID = Itoa(Trunc(v.n))])
                ELSE bad(TypeErr(k))
          [] k = "new" ->
                IF v.kind # "bool" THEN bad(TypeErr(k))
                ELSE ok([tt EXCEPT !.New = v.b])
          [] k = "rating" ->
                IF ~isNum THEN bad(TypeErr(k))
                ELSE ok([tt EXCEPT !.Rating = v.n])
          [] k = "tags" ->
                IF isStr THEN ok(tt)
                ELSE IF v.kind = "array"
                THEN (IF \E j \in 1..Len(v.elems) : v.elems[j].kind # "string"
                      THEN bad(TypeErr(k))
                      ELSE ok([tt EXCEPT !.Tags =
                                 tt.Tags \o [j \in 1..Len(v.elems) |-> v.elems[j].s]]))
                ELSE bad(TypeErr(k))

\* The switch with "continue" for "return" where a type assertion fails: the
\* field keeps its zero value.
DecodeKey_IgnoreTypeErr(k, v, tt) ==
    IF k \in KnownKeys
    THEN LET r == DecodeKnown(k, v, tt)
         IN  IF r.err.kind = "type" THEN [err |-> DecOK, t |-> tt] ELSE r
    ELSE [err |-> UnknownErr(k), t |-> tt]

\* The switch with its default case dropped: an unknown key is skipped.
DecodeKey_SkipUnknown(k, v, tt) ==
    IF k \in KnownKeys THEN DecodeKnown(k, v, tt) ELSE [err |-> DecOK, t |-> tt]

\* The switch of UnmarshalJSON on one key of the map.
DecodeKey(k, v, tt) ==
    IF k \in KnownKeys THEN DecodeKnown(k, v, tt)
    ELSE [err |-> UnknownErr(k), t |-> tt]

\* for k, v := range m, in the order ord, from the from-th key on: the first
\* error ends the loop.
RECURSIVE DecodeLoop(_, _, _, _)
DecodeLoop(m, ord, from, tt) ==
    IF from > Len(ord) THEN [err |-> DecOK, t |-> tt]
    ELSE LET r == DecodeKey(ord[from], m[ord[from]], tt)
         IN  IF r.err # DecOK THEN r ELSE DecodeLoop(m, ord, from + 1, r.t)

\* The orders a range over a map with the keys S can take.
Orders(S) ==
    {f \in [1..Cardinality(S) -> S] :
        \A a, b \in 1..Cardinality(S) : a # b => f[a] # f[b]}

\* The JSON values the decoder is run on.
TimeString == <<"2", "0", "2", "1", "-", "0", "3", "-", "0", "4", " ", "0", "5", ":", "0", "6", ":", "0", "7">>
Values ==
    {JStr(<<>>), JStr(<<"4", "2">>), JStr(TimeString), JStr(<<"a", ",", " ", "b">>), JNum(75),
     JBool(TRUE), JNull, JArr(<<JStr(<<"a">>), JStr(<<"b">>)>>), JArr(<<JNum(75)>>),
     JObj}
FocusKeys == {"addedTimestamp", "fid", "tags", "igdbID", "id"}
FocusValues == {JStr(<<"4", "2">>), JStr(TimeString), JNum(75), JArr(<<JStr(<<"a">>)>>)}
Objects ==
    {[kind |-> "object", m |-> [k \in {} |-> JNull]]}
        \cup {[kind |-> "object", m |-> [x \in {k} |-> v]] :
                k \in KnownKeys \cup {"id"}, v \in Values}
        \cup UNION {{[kind |-> "object", m |-> f] : f \in [K -> FocusValues]} :
                K \in {S \in SUBSET FocusKeys :
                         Cardinality(S) >= 2 /\ Cardinality(S) <= MaxKeys}}
DecodeInputs == Objects \cup {JNull, JArr(<<>>)}

\* Torrent.UnmarshalJSON on a zero Torrent, as the decoder of torrentList
\* calls it: a JSON null gives an empty map, a value that is not an object
\* fails in json.Unmarshal, and *t is written only when no key failed.
UnmarshalJSON ==
    /\ ~decoded
    /\ buf.kind # "none"
    /\ decoded' = TRUE
    /\ LET b == buf IN
        CASE b.kind = "null" -> t' = ZeroTorrent /\ decErr' = DecOK
             [] b.kind = "array" ->
                    t' = ZeroTorrent /\ decErr' = [kind |-> "syntax", field |-> ""]
             [] b.kind = "object" ->
                    \E ord \in Orders(DOMAIN b.m) :
                        LET r == DecodeLoop(b.m, ord, 1, ZeroTorrent)
                        IN  /\ decErr' = r.err
                            /\ t' = IF r.err = DecOK THEN r.t ELSE ZeroTorrent
    /\ UNCHANGED <<buf, Page, cursorVars, reqVars>>

\* ------------------------------------------------------------------------
\* Initial states and the cursor's specification
\* ------------------------------------------------------------------------

\* A zero Torrent that nothing has been decoded into.
Undecoded ==
    /\ decoded = FALSE
    /\ t = ZeroTorrent
    /\ decErr = DecOK

\* There is no Torrent to decode.
NoDecode ==
    /\ buf = [kind |-> "none"]
    /\ Undecoded

\* The request fields Search(query...) leaves at their zero value.
SearchZero ==
    /\ Categories = <<>>
    /\ Facets = NilMap
    /\ Added = <<>>
    /\ OrderBy = <<>>
    /\ Order = <<>>
    /\ q = <<>>
    /\ lastOp = "Search"

\* The cursor fields as Search() sets them, with a client that has a jar.
SearchCursor ==
    /\ Page = 1
    /\ start = 1
    /\ res = Nil
    /\ i = -1
    /\ p = -1
    /\ d = 5
    /\ err = NoErr
    /\ pc = "idle"
    /\ page = 0
    /\ ctxDone = FALSE
    /\ ret = "none"
    /\ jar = TRUE
    /\ srv = [N |-> 0, P |-> 1, honest |-> TRUE]
    /\ fetches = <<>>
    /\ sent = 0
    /\ delays = 0
    /\ yielded = 0
    /\ calls = 0
    /\ failed = FALSE
    /\ obs = NoObs
    /\ committed = [res |-> Nil, i |-> -1, err |-> NoErr]
    /\ waiting = "none"
    /\ inflight = 0

\* Search() followed by WithPage and WithNextDelay, and New with or without
\* a jar; the server is fixed for the run.
Init ==
    /\ Page \in 0..MaxStart
    /\ start = Page
    /\ Query = <<>>
    /\ SearchZero
    /\ NoDecode
    /\ res = Nil
    /\ i = -1
    /\ p = -1
    /\ d \in {0, 5}
    /\ err = NoErr
    /\ pc = "idle"
    /\ page = 0
    /\ ctxDone = FALSE
    /\ ret = "none"
    /\ jar \in BOOLEAN
    /\ srv \in [N : 0..MaxFound, P : 0..MaxPer, honest : BOOLEAN]
    /\ srv.honest => srv.P >= 1
    /\ fetches = <<>>
    /\ sent = 0
    /\ delays = 0
    /\ yielded = 0
    /\ calls = 0
    /\ failed = FALSE
    /\ obs = NoObs
    /\ committed = [res |-> Nil, i |-> -1, err |-> NoErr]
    /\ waiting = "none"
    /\ inflight = 0

Next ==
    \/ NextCall
    \/ DelayElapsed
    \/ CancelCtx
    \/ FetchReturn
    \/ Cur
    \/ Err
    \/ \E op \in CursorOps : Block(op)

Spec == Init /\ [][Next]_vars

\* ------------------------------------------------------------------------
\* The cursor: claims
\* ------------------------------------------------------------------------

CeilDiv(a, b) == (a + b - 1) \div b

\* The page the cursor is configured to start at: Page, or 1 when Page is 0.
StartPage == IF start = 0 THEN 1 ELSE start

\* Next has returned false and no error is stored.
Exhausted == pc = "idle" /\ ret = "false" /\ err = NoErr

\* C1: a fresh cursor (start page 1) on a consistent server with numFound = N
\* and perPage = P >= 1 that has returned false without an error has returned
\* true exactly N times and has used exactly ceil(N/P) fetches.
C1_ExhaustionCount ==
    (srv.honest /\ srv.N >= 1 /\ start = 1 /\ Exhausted)
        => (yielded = srv.N /\ Len(fetches) = CeilDiv(srv.N, srv.P))

\* C2: the k-th fetch of a cursor requests page s + k - 1, s the start page
\* (stated for a consistent server, where it already fails).
C2_SequentialPages ==
    srv.honest => \A k \in 1..Len(fetches) : fetches[k] = StartPage + k - 1

\* C3: the step in which a fetch of Next fails stores a non-nil error and
\* returns false; from then on the error stays, every Next returns false and
\* no fetch is issued and no request sent.
C3_ErrorSticky ==
    [][/\ failed' => (err' # NoErr /\ ret' = "false" /\ pc' = "idle")
       /\ failed => (failed' /\ err' = err /\ fetches' = fetches /\ sent' = sent)]_vars

\* A fetch for the second page has failed after the first page gave an item,
\* and Next has been called again since.
C3_Witness ==
    /\ failed /\ Len(fetches) = 2 /\ yielded = 1 /\ calls = 3
    /\ err # NoErr /\ ret = "false"

\* C4: once Next has returned false without an error, every later Next
\* returns false and issues no fetch.
C4_ExhaustedSticky ==
    [][Exhausted => (fetches' = fetches /\ ret' = "false")]_vars

\* C5: when the first fetch of a cursor succeeds with zero records, the first
\* Next call returns false, one fetch has been issued and the error is nil.
C5_EmptyFirstPage ==
    (calls = 1 /\ pc = "idle" /\ res # Nil /\ Len(res.TorrentList) = 0)
        => (ret = "false" /\ Len(fetches) = 1 /\ err = NoErr /\ yielded = 0)

C5_Witness ==
    /\ calls = 1 /\ pc = "idle" /\ res # Nil /\ Len(res.TorrentList) = 0
    /\ ret = "false" /\ sent = 1

\* C6: a Next call whose ctx is cancelled while its fetch is in flight returns
\* false and stores the cancellation error of the transport; the error then
\* stays, later Next calls return false and issue no fetch.
C6_Cancellation ==
    [][/\ (pc = "fetch" /\ ctxDone /\ pc' = "idle")
            => (ret' = "false" /\ err' = ErrCanceled)
       /\ err = ErrCanceled
            => (err' = ErrCanceled /\ ret' = "false" /\ fetches' = fetches)]_vars

\* The first fetch, which no delay precedes, was cancelled in flight, and
\* Next has been called again since.
C6_Witness ==
    /\ err = ErrCanceled /\ sent = 1 /\ Len(fetches) = 1 /\ delays = 0
    /\ calls = 2 /\ ret = "false" /\ pc = "idle"

\* ------------------------------------------------------------------------
\* The request builder: operations
\* ------------------------------------------------------------------------

Built(op) ==
    /\ lastOp' = op
    /\ q' = <<>>
    /\ UNCHANGED <<cursorVars, decVars>>

WithCategories ==
    /\ \E cats \in CategoryArgs : Categories' = cats
    /\ Built("WithCategories")
    /\ UNCHANGED <<Page, Facets, Query, Added, OrderBy, Order>>

\* An odd number of arguments panics before anything is written.
WithFacets ==
    /\ \E fs \in FacetsArgs :
          IF Len(fs) % 2 # 0
          THEN /\ Built("panic")
               /\ UNCHANGED Facets
          ELSE /\ Built("WithFacets")
               /\ Facets' = [nil |-> FALSE, m |-> PutPairs(MapOf(Facets), fs)]
    /\ UNCHANGED <<Page, Categories, Query, Added, OrderBy, Order>>

WithFacet ==
    /\ \E name \in FacetNames, values \in FacetValueArgs :
          Facets' = [nil |-> FALSE,
                     m |-> PutPairs(MapOf(Facets), <<name, Join(values, <<",">>)>>)]
    /\ Built("WithFacet")
    /\ UNCHANGED <<Page, Categories, Query, Added, OrderBy, Order>>

WithPage ==
    /\ \E pg \in 0..MaxStart : Page' = pg
    /\ Built("WithPage")
    /\ UNCHANGED <<Categories, Facets, Query, Added, OrderBy, Order>>

WithAdded ==
    /\ \E added \in AddedArgs : Added' = added
    /\ Built("WithAdded")
    /\ UNCHANGED <<Page, Categories, Facets, Query, OrderBy, Order>>

WithOrderBy ==
    /\ \E orderBy \in OrderByArgs : OrderBy' = orderBy
    /\ Built("WithOrderBy")
    /\ UNCHANGED <<Page, Categories, Facets, Query, Added, Order>>

WithOrder ==
    /\ \E order \in OrderArgs : Order' = order
    /\ Built("WithOrder")
    /\ UNCHANGED <<Page, Categories, Facets, Query, Added, OrderBy>>

\* SearchRequest.Do: the path is built from the fields and the request goes
\* to Client.Do; the request itself is left as it is.
Do ==
    /\ q' = BuildPath(Categories, Facets, Query, Added, OrderBy, Order, Page)
    /\ lastOp' = "Do"
    /\ UNCHANGED <<Page, Categories, Facets, Query, Added, OrderBy, Order,
                   cursorVars, decVars>>

\* Search(query...)
InitReq ==
    /\ Query \in QueryArgs
    /\ SearchZero
    /\ NoDecode
    /\ SearchCursor

NextReq ==
    \/ WithCategories \/ WithFacets \/ WithFacet \/ WithPage \/ WithAdded
    \/ WithOrderBy \/ WithOrder \/ Do

SpecReq == InitReq /\ [][NextReq]_vars

\* ------------------------------------------------------------------------
\* The request builder and the path encoder: claims
\* ------------------------------------------------------------------------

BuilderOps == {"WithCategories", "WithFacets", "WithFacet", "WithPage",
               "WithAdded", "WithOrderBy", "WithOrder"}

\* C7: a builder operation leaves every field of its receiver, the contents of
\* the Facets map included, as it was before the call.
C7_ReceiverUnmutated ==
    [][lastOp' \in BuilderOps
        => UNCHANGED <<Categories, Facets, Query, Added, OrderBy, Order, Page>>]_vars

\* The facets that Do has an entry to emit for.
Recognized(facets) ==
    IF facets.nil THEN {}
    ELSE DOMAIN facets.m \cap {K_added, K_name, K_seeders, K_size, K_tags}

\* C8: the path of Do is the concatenation, in the order categories, facets,
\* query, added, orderby, order, page, of the segments whose value is not
\* empty; facets is empty when there is no recognized facet to emit.
C8_SegmentsOmitted ==
    lastOp = "Do" =>
        q = BuildPath(Categories,
                      IF Recognized(Facets) = {} THEN NilMap ELSE Facets,
                      Query, Added, OrderBy, Order, Page)

\* The characters of path after the first occurrence of marker, up to the
\* next '/' or the end; <<>> when marker does not occur.
Segment(path, marker) ==
    LET n == Len(marker)
        at == {k \in 1..(Len(path) - n + 1) : SubSeq(path, k, k + n - 1) = marker}
    IN  IF at = {} THEN <<>>
        ELSE LET from == (CHOOSE k \in at : \A j \in at : k <= j) + n
                 ends == {k \in from..Len(path) : path[k] = "/"}
                 to == IF ends = {} THEN Len(path)
                       ELSE (CHOOSE k \in ends : \A j \in ends : k <= j) - 1
             IN  SubSeq(path, from, to)

\* A facet value with '[', ']' and ' ' replaced and the rest unchanged.
C9_Value(s) ==
    LET sub(c) == IF c = "[" THEN <<"%", "2", "5", "5", "B">>
                  ELSE IF c = "]" THEN <<"%", "2", "5", "5", "D">>
                  ELSE IF c = " " THEN <<"%", "2", "5", "2", "0">>
                  ELSE <<c>>
        f[k \in 0..Len(s)] == IF k = 0 THEN <<>> ELSE f[k - 1] \o sub(s[k])
    IN  f[Len(s)]

\* C9: the facets segment of the path has one entry name%3Avalue for each
\* facet named added, name, seeders, size or tags and none for another name,
\* in that order of the names, the values with '[', ']' and ' ' replaced by
\* %255B, %255D and %2520, the entries joined by '_'.
C9_FacetsSegment ==
    (lastOp = "Do" /\ ~Facets.nil) =>
        LET order == <<<<"a", "d", "d", "e", "d">>, <<"n", "a", "m", "e">>, <<"s", "e", "e", "d", "e", "r", "s">>, <<"s", "i", "z", "e">>, <<"t", "a", "g", "s">>>>
            have(n) == n \in DOMAIN Facets.m
            names == SelectSeq(order, have)
            f[k \in 0..Len(names)] ==
                IF k = 0 THEN <<>>
                ELSE f[k - 1] \o (IF k = 1 THEN <<>> ELSE <<"_">>)
                       \o names[k] \o <<"%", "3", "A">> \o C9_Value(Facets.m[names[k]])
        IN  Segment(q, <<"/", "f", "a", "c", "e", "t", "s", "/">>) = f[Len(names)]

\* Do on a request holding size, added and an unknown facet, the size facet
\* with a bracketed range as its value.
C9_Witness ==
    /\ lastOp = "Do" /\ ~Facets.nil
    /\ DOMAIN Facets.m = {K_added, K_size, K_genre}
    /\ Facets.m[K_size] = Seeders0to50
    /\ Facets.m[K_added] = <<"a", ",", "b", " ", "c">>

\* ------------------------------------------------------------------------
\* The Torrent decoder: specification and claims
\* ------------------------------------------------------------------------

InitDec ==
    /\ buf \in DecodeInputs
    /\ Undecoded
    /\ Query = <<>>
    /\ SearchZero
    /\ SearchCursor

NextDec == UnmarshalJSON

SpecDec == InitDec /\ [][NextDec]_vars

\* The keys of the decoded object that the decoder has no case for.
UnknownKeys == IF buf.kind = "object" THEN DOMAIN buf.m \ KnownKeys ELSE {}

\* C10: decoding an object that has a key outside the known fields fails,
\* whatever its other keys and values; an object without such a key, each of
\* whose values its own case accepts, decodes.
C10_UnknownKeyFails ==
    (decoded /\ buf.kind = "object") =>
        /\ UnknownKeys # {} => decErr # DecOK
        /\ (/\ UnknownKeys = {}
            /\ \A k \in DOMAIN buf.m :
                  DecodeKnown(k, buf.m[k], ZeroTorrent).err = DecOK)
              => decErr = DecOK

\* An object whose only fault is the key "id" has been decoded: its fid and
\* addedTimestamp are well-formed.
C10_Witness ==
    /\ decoded
    /\ buf.kind = "object"
    /\ DOMAIN buf.m = {"id", "fid", "addedTimestamp"}
    /\ buf.m["fid"] = JStr(<<"4", "2">>)
    /\ buf.m["addedTimestamp"] = JStr(TimeString)
    /\ decErr = UnknownErr("id")

\* The JSON kinds documented for each known field.
C11_Shapes ==
    [addedTimestamp |-> {"string"}, categoryID |-> {"number"},
     completed |-> {"number"}, download_multiplier |-> {"number"},
     commentsDisabled |-> {"number"}, fid |-> {"string"},
     filename |-> {"string"}, genres |-> {"string"},
     igdbID |-> {"string", "number"}, animeID |-> {"string", "number"},
     imdbID |-> {"string"}, leechers |-> {"number"}, name |-> {"string"},
     new |-> {"bool"}, numComments |-> {"number"}, rating |-> {"number"},
     seeders |-> {"number"}, size |-> {"number"},
     tags |-> {"string", "array"}, tvmazeID |-> {"string"},
     uploader |-> {"string"}]

\* The field of Torrent each known key is decoded into.
C11_Field ==
    [addedTimestamp |-> "AddedTimestamp", categoryID |-> "CategoryID",
     completed |-> "Completed", download_multiplier |-> "DownloadMultiplier",
     commentsDisabled |-> "CommentsDisabled", fid |-> "ID",
     filename |-> "Filename", genres |-> "Genres", igdbID |-> "IgdbID",
     animeID |-> "AnimeID", imdbID |-> "ImdbID", leechers |-> "Leechers",
     name |-> "Name", new |-> "New", numComments |-> "NumComments",
     rating |-> "Rating", seeders |-> "Seeders", size |-> "Size",
     tags |-> "Tags", tvmazeID |-> "TvmazeID", uploader |-> "Uploader"]

\* C11: decoding succeeds only if every known field of the object has one of
\* the JSON kinds documented for it (a value of another kind is an error, it
\* does not leave the field at its zero value); a known field that is absent
\* is no error and leaves its field of the Torrent at the zero value.
C11_KindsChecked ==
    (decoded /\ buf.kind = "object") =>
        /\ decErr = DecOK =>
              \A k \in DOMAIN buf.m \cap DOMAIN C11_Shapes :
                  buf.m[k].kind \in C11_Shapes[k]
        /\ decErr = DecOK =>
              \A k \in DOMAIN C11_Shapes \ DOMAIN buf.m :
                  t[C11_Field[k]] = ZeroTorrent[C11_Field[k]]
        /\ DOMAIN buf.m = {} => decErr = DecOK
        /\ decErr.kind = "type" =>
              /\ decErr.field \in DOMAIN buf.m \cap DOMAIN C11_Shapes
              /\ t = ZeroTorrent

\* The object {"seeders": "42"} has been decoded: a string where a number is
\* documented.
C11_Witness ==
    /\ decoded /\ buf.kind = "object"
    /\ DOMAIN buf.m = {"seeders"}
    /\ buf.m["seeders"].kind = "string"
    /\ decErr = TypeErr("seeders")

\* C12: an object whose addedTimestamp is a string in the calendar format, or
\* a string of digits giving unix seconds, decodes without error.
C12_BothTimestampShapes ==
    (/\ decoded /\ buf.kind = "object"
     /\ DOMAIN buf.m = {"addedTimestamp"}
     /\ buf.m["addedTimestamp"].kind = "string"
     /\ \/ ParseTime(buf.m["addedTimestamp"].s).ok
        \/ AllDigits(buf.m["addedTimestamp"].s))
        => decErr = DecOK

\* ------------------------------------------------------------------------
\* The cursor: credentials, accessors, delay and serialization
\* ------------------------------------------------------------------------

\* C13: with no credential material configured no HTTP request is ever sent;
\* the first Next returns false with the error of the missing jar, and the
\* cursor stays in that state: later calls return false and fetch nothing.
C13_NoCredentials ==
    ~jar =>
        /\ sent = 0
        /\ pc = "idle"
        /\ calls >= 1 =>
              /\ err = ErrNoJar /\ res = Nil
              /\ ret = "false" /\ failed
              /\ Len(fetches) = 1 /\ yielded = 0

\* Without a jar, Next has been called twice.
C13_Witness ==
    /\ ~jar /\ calls = 2 /\ err = ErrNoJar /\ ret = "false" /\ sent = 0

\* A step in which a call of Cur returns.
CurStep == obs'.op = "Cur" /\ obs' # obs

\* A step in which a call of Next begins: it takes req.mu, which is free.
NextStep == pc = "idle" /\ obs'.op = "Next"

\* C14: a call of Cur leaves the page, the index, the page counter, the page
\* number and the error as they are and returns the record at the current
\* index of the current page; a further call of Cur before the next call of
\* Next returns what the one before it returned.
C14_CurPureRead ==
    [][CurStep =>
          /\ UNCHANGED <<Page, res, i, p, err, ret>>
          /\ (res # Nil /\ i >= 0 /\ i < Len(res.TorrentList)) =>
                (obs'.st = "ok" /\ obs'.val = res.TorrentList[i + 1])
          /\ obs.n >= 1 => (obs'.st = obs.st /\ obs'.val = obs.val)]_vars

\* Cur has been called twice since the Next that advanced to the second
\* record of a page, and returned that record.
C14_Witness ==
    /\ obs.op = "Cur" /\ obs.n = 2 /\ obs.st = "ok"
    /\ i = 1 /\ res # Nil /\ obs.val = res.TorrentList[2]

\* C15: what Cur and Err return, also to a thread that called them while a
\* call of Next was in progress, is the record at the index, of the page, and
\* the error that the last return of Next left: never the index of a call in
\* progress with the page of the call before.
C15_CommittedOnly ==
    /\ obs.n >= 1 =>
          [st |-> obs.st, val |-> obs.val] = CurValue(committed.res, committed.i)
    /\ obs.op = "Err" => obs.e = committed.err

\* A thread called Cur while a call of Next was in progress; the call of Next
\* fetched the second page, and Cur has returned the first record of it.
C15_Witness ==
    /\ obs.op = "Cur" /\ obs.blocked /\ obs.st = "ok"
    /\ pc = "idle" /\ Len(fetches) = 2 /\ i = 0
    /\ res # Nil /\ obs.val = res.TorrentList[1]

\* C16: a cursor that Search made, on a consistent server, is at the last
\* record of its page: Next returns false without a fetch if and only if the
\* number of pages fetched so far times perPage is at least numFound.
C16_ExhaustionTest ==
    [][(/\ NextStep /\ start = 1 /\ srv.honest
        /\ err = NoErr /\ res # Nil
        /\ Len(res.TorrentList) >= 1 /\ i = Len(res.TorrentList) - 1)
          => ((ret' = "false" /\ fetches' = fetches /\ pc' = "idle")
                <=> Len(fetches) * res.PerPage >= res.NumFound)]_vars

\* C17: Next on a cursor that holds a page, with the index below the page
\* length minus 1, returns true and adds one to the index; it fetches
\* nothing, waits no delay, and leaves the page, the page counter, the page
\* number, the filter fields and the error as they are.
C17_InPageAdvance ==
    [][(NextStep /\ res # Nil /\ i < Len(res.TorrentList) - 1)
          => /\ ret' = "true" /\ i' = i + 1 /\ pc' = "idle"
             /\ UNCHANGED <<Page, res, p, err, fetches, sent, delays, inflight>>
             /\ UNCHANGED <<Categories, Facets, Query, Added, OrderBy, Order>>]_vars

\* Next has advanced to the second record of the first page.
C17_Witness ==
    /\ obs.op = "Next" /\ pc = "idle" /\ ret = "true"
    /\ res # Nil /\ i = 1 /\ Len(fetches) = 1 /\ delays = 0

\* C18: the delay is waited only when it is not zero and a page has been
\* fetched before, and only by a call of Next that goes on to fetch; a fetch
\* comes right after the wait if and only if the delay is not zero and the
\* fetch is not the first; the wait is followed by the fetch.
C18_DelayBeforeFetch ==
    [][/\ delays' # delays =>
             /\ d # 0 /\ Len(fetches) >= 1
             /\ delays' = delays + 1 /\ pc' = "delay"
       /\ fetches' # fetches =>
             (pc = "delay" <=> (d # 0 /\ Len(fetches) >= 1))
       /\ pc = "delay" => (pc' = "delay" \/ Len(fetches') = Len(fetches) + 1)
       /\ (NextStep /\ pc' = "idle" /\ fetches' = fetches) => delays' = delays
      ]_vars

\* With a delay set, the second fetch has been issued after one wait.
C18_Witness ==
    /\ d # 0 /\ Len(fetches) = 2 /\ delays = 1 /\ sent = 2

\* C19: at most one fetch of the cursor is in flight, and while a call of
\* Next is in progress no other call of Next begins: the index, the page
\* counter and the count of calls move only when the call in progress has
\* returned, so the calls take effect one after the other.
C19_Serialized ==
    [][/\ inflight' <= 1
       /\ pc # "idle" =>
             /\ p' = p /\ i' = i /\ calls' = calls
             /\ obs'.op = "Next" => obs' = obs]_vars

\* A thread called Next while another call of Next was in progress; its call
\* has run after that one returned, and fetched the second page.
C19_Witness ==
    /\ obs.op = "Next" /\ obs.blocked
    /\ pc = "idle" /\ ret = "true" /\ Len(fetches) = 2 /\ inflight = 0

\* The cursor has no current record: Next has not been called, or its last
\* call returned false after a fetch that failed or that gave an empty page.
NoCurrent ==
    \/ ret = "none"
    \/ ret = "false" /\ err # NoErr
    \/ ret = "false" /\ res # Nil /\ Len(res.TorrentList) = 0

\* C20: a call of Cur on a cursor with no current record panics; a fetch that
\* failed has left no page.
C20_CurPanics ==
    /\ err # NoErr => res = Nil
    /\ (obs.n >= 1 /\ NoCurrent) => obs.st = "panic"

\* Cur has panicked after the fetch of the second page failed.
C20_Witness ==
    /\ obs.op = "Cur" /\ obs.st = "panic"
    /\ err # NoErr /\ ret = "false" /\ Len(fetches) = 2 /\ sent = 2

\* C21: when no call of Next is in progress and the last one returned true,
\* the error is nil, the page is not nil and the index lies within the
\* records of the page, so that Cur returns a record and has returned one to
\* every call made since.
C21_TrueMeansCurrent ==
    (pc = "idle" /\ ret = "true") =>
        /\ err = NoErr
        /\ res # Nil
        /\ i >= 0 /\ i < Len(res.TorrentList)
        /\ CurValue(res, i).st = "ok"
        /\ obs.n >= 1 => (obs.st = "ok" /\ obs.val = res.TorrentList[i + 1])

\* Next has returned true on the second record of the second page, and Cur
\* has returned that record.
C21_Witness ==
    /\ pc = "idle" /\ ret = "true" /\ Len(fetches) = 2 /\ i = 1
    /\ obs.op = "Cur" /\ obs.st = "ok" /\ obs.val = res.TorrentList[2]

\* ------------------------------------------------------------------------
\* All: the loop for req.Next(ctx, cl) { req.Cur() }, then req.Err()
\* ------------------------------------------------------------------------

\* The loop condition: Next is called first, and again after the Cur of the
\* body.
AllNext ==
    /\ ret = "none" \/ (ret = "true" /\ obs.op = "Cur")
    /\ NextCall

\* The loop body: Cur, once after each Next that returned true.
AllCur ==
    /\ ret = "true" /\ obs.op = "Next"
    /\ Cur

\* The Err call after the loop, which the false of Next has ended.
AllErr ==
    /\ ret = "false" /\ obs.op = "Next"
    /\ Err

\* A server whose pages report perPage >= 1; numFound is at most MaxFound and
\* a page has at most MaxLen records.
InitAll == Init /\ srv.P >= 1

NextAll ==
    \/ AllNext
    \/ AllCur
    \/ AllErr
    \/ DelayElapsed
    \/ CancelCtx
    \/ FetchReturn

\* The loop runs on, the timer of the delay fires and every fetch returns.
FairAll ==
    /\ WF_vars(AllNext)
    /\ WF_vars(AllCur)
    /\ WF_vars(DelayElapsed)
    /\ WF_vars(FetchReturn)

SpecAll == InitAll /\ [][NextAll]_vars /\ FairAll

\* C22: the loop of All ends: a call of Next returns false, after which
\* All calls Next no more and nothing is fetched.
C22_AllTerminates == <>(pc = "idle" /\ ret = "false")

\* The loop has ended without an error after three fetches, and All has
\* called Err.
C22_Witness ==
    /\ pc = "idle" /\ ret = "false" /\ err = NoErr
    /\ Len(fetches) = 3 /\ yielded >= 3 /\ obs.op = "Err"

====
